---------------------------- MODULE Spec2Model ----------------------------
(***************************************************************************)
(* LoFi Remix API (src/main.py): the /process request handler              *)
(* process_audio and the command builder get_ffmpeg_command.               *)
(*                                                                         *)
(* Strings are Python strings: paths, commands, file names and messages    *)
(* are built and taken apart character by character, as the code does.     *)
(* The file system is the set of paths that exist under TEMP_DIR.          *)
(***************************************************************************)
EXTENDS Naturals, Sequences, FiniteSets, TLC

VARIABLES
    sh_forks,    \* platform: /bin/sh -c runs the engine as a child of the shell
    encoding,    \* platform: the locale's encoding, which text=True decodes with
    fs,          \* paths that exist on storage
    used_ids,    \* uuids handed out so far
    pc,          \* per request: its state in the request state machine
    job,         \* per request: file_id, input_path, output_path, preset, filename
    cmd,         \* per request: the command string given to subprocess.run
    child,       \* per request: the engine process started for it
    captured,    \* per request: the bytes behind result.stderr
    result,      \* per request: subprocess.CompletedProcess (returncode, stderr)
    outcome,     \* per request: what the handler returns
    fault,       \* per request: the kind of failure met, "none" so far
    exc,         \* per request: the exception the try block raised
    f_open,      \* per request: the upload's file f is open (lines 55-57)
    out_seen,    \* per request: what output_path.exists() answered
    warned,      \* per request: the cleanup warning was logged
    runs,        \* per request: calls of subprocess.run
    reports,     \* per request: outcomes produced
    steps,       \* per request: the steps taken, in order
    hist,        \* per request: the states visited, in order
    probe        \* one call of get_ffmpeg_command on its own

reqvars == <<pc, job, cmd, child, captured, result, outcome, fault, exc, f_open, out_seen,
             warned, runs, reports, steps, hist>>
vars == <<sh_forks, encoding, fs, used_ids, reqvars, probe>>

---------------------------------------------------------------------------
(* Bounds and program constants *)

NumReqs == 2

TIMEOUT_S == 300

Reqs == 1..NumReqs

---------------------------------------------------------------------------
(* Python string operations the handler uses *)

Max(S) == CHOOSE x \in S : \A y \in S : y <= x

\* the positions at which sub occurs in s
Occurrences(s, sub) ==
    {i \in 1..(Len(s) + 1 - Len(sub)) : SubSeq(s, i, i + Len(sub) - 1) = sub}

\* s.rsplit('.', 1)[0]
rsplit_dot_head(s) ==
    IF Occurrences(s, ".") = {} THEN s
    ELSE SubSeq(s, 1, Max(Occurrences(s, ".")) - 1)

---------------------------------------------------------------------------
(* get_ffmpeg_command *)

KnownPresets ==
    {"lofi", "tiktok_lofi", "chill_lofi", "reverb", "nightcore", "8d_audio",
     "vaporwave"}

\* the test of the first branch without its third alias
is_lofi_two_aliases(preset) == preset = "lofi" \/ preset = "tiktok_lofi"

\* the test of the first branch: the three lofi aliases, compared exactly
is_lofi(preset) ==
    preset = "lofi" \/ preset = "tiktok_lofi" \/ preset = "chill_lofi"

get_ffmpeg_command(preset, input_path, output_path) ==
    IF is_lofi(preset) THEN
        \* LOFI: bass boost + lowpass + warmth
        "ffmpeg -i \"" \o input_path \o "\" "
        \o "-filter_complex \""
        \o "lowpass=f=3000,"
        \o "highpass=f=200,"
        \o "equalizer=f=60:width_type=h:width=100:g=10,"
        \o "vibrato=f=0.25:d=0.3,"
        \o "asetrate=44100*0.97,aresample=44100"
        \o "\" "
        \o "-c:a aac -b:a 320k \"" \o output_path \o "\""
    ELSE IF preset = "reverb" THEN
        \* SLOWED + REVERB
        "ffmpeg -i \"" \o input_path \o "\" "
        \o "-filter_complex \""
        \o "atempo=0.85,"
        \o "asetrate=44100*0.95,aresample=44100,"
        \o "reverb=roomsize=0.8:wet=0.45:dry=0.55,"
        \o "equalizer=f=60:width_type=h:width=100:g=12"
        \o "\" "
        \o "-c:a aac -b:a 320k \"" \o output_path \o "\""
    ELSE IF preset = "nightcore" THEN
        \* NIGHTCORE: speed up + pitch up
        "ffmpeg -i \"" \o input_path \o "\" "
        \o "-filter_complex \""
        \o "atempo=1.25,"
        \o "asetrate=44100*1.1,aresample=44100,"
        \o "highpass=f=100,"
        \o "equalizer=f=8000:width_type=h:width=2000:g=8"
        \o "\" "
        \o "-c:a aac -b:a 320k \"" \o output_path \o "\""
    ELSE IF preset = "8d_audio" THEN
        \* 8D AUDIO: spatial panning
        "ffmpeg -i \"" \o input_path \o "\" "
        \o "-filter_complex \""
        \o "apulsator=hz=0.35:width=0.5,"
        \o "stereotools=mlev=0.5:phase=0.25,"
        \o "extrastereo=m=2.0,"
        \o "reverb=roomsize=0.5:wet=0.3"
        \o "\" "
        \o "-c:a aac -b:a 320k \"" \o output_path \o "\""
    ELSE IF preset = "vaporwave" THEN
        \* VAPORWAVE: slow + pitch down + reverb
        "ffmpeg -i \"" \o input_path \o "\" "
        \o "-filter_complex \""
        \o "atempo=0.90,"
        \o "asetrate=44100*0.93,aresample=44100,"
        \o "reverb=roomsize=0.6:wet=0.35,"
        \o "equalizer=f=60:width_type=h:width=100:g=10"
        \o "\" "
        \o "-c:a aac -b:a 320k \"" \o output_path \o "\""
    ELSE
        \* default: high quality encode
        "ffmpeg -i \"" \o input_path \o "\" -c:a aac -b:a 320k \""
        \o output_path \o "\""

---------------------------------------------------------------------------
(* The request handler's data *)

TEMP_DIR == "/tmp/audio"

\* str(uuid.uuid4()): the identifiers the model draws from
Ids == {"id" \o ToString(i) : i \in 1..NumReqs}

\* a uuid4 that may repeat an identifier already handed out
uuid4_repeating(used) == Ids

\* uuid.uuid4(): 122 random bits, taken never to repeat. Identifiers differ
\* in nothing but their name, so of those not yet handed out one is taken.
uuid4(used) == {CHOOSE id \in Ids \ used : TRUE}

\* the preset form field
Presets == {"lofi", "not_a_real_preset"}

\* file.filename (Optional[str]): <<>> is None, <<s>> the string s
FileNames == {<<>>, <<"my.song.wav">>}

NoJob ==
    [file_id |-> "", input_path |-> "", output_path |-> "", preset |-> "",
     filename |-> <<>>]

\* lines 48-50: the paths of a request, from its fresh identifier
NewJob(id, preset, filename) ==
    [file_id |-> id,
     input_path |-> TEMP_DIR \o "/" \o id \o "_input.mp3",
     output_path |-> TEMP_DIR \o "/" \o id \o "_output.m4a",
     preset |-> preset,
     filename |-> filename]

NoResult == [set |-> FALSE]

NoOutcome == [kind |-> "none"]

FileResponse(path, media_type, filename) ==
    [kind |-> "file", path |-> path, media_type |-> media_type,
     filename |-> filename]

\* Exceptions are their class and their text, str(e).

PermissionDeniedText(path) == "[Errno 13] Permission denied: '" \o path \o "'"

SpawnErrorText == "[Errno 11] Resource temporarily unavailable"

OSError(text) == [type |-> "OSError", text |-> text]

ValueError(text) == [type |-> "ValueError", text |-> text]

\* raised by bytes.decode for the byte 0xff found at position pos
UnicodeDecodeError(codec, pos, why) ==
    [type |-> "UnicodeDecodeError",
     text |-> "'" \o codec \o "' codec can't decode byte 0xff in position "
              \o ToString(pos) \o ": " \o why]

\* None.rsplit at line 98
AttributeError ==
    [type |-> "AttributeError",
     text |-> "'NoneType' object has no attribute 'rsplit'"]

\* raised by subprocess.run for the command c
TimeoutExpired(c) ==
    [type |-> "TimeoutExpired",
     text |-> "Command '" \o c \o "' timed out after "
              \o ToString(TIMEOUT_S) \o " seconds"]

\* asyncio.CancelledError, raised at an await when the request's task is
\* cancelled
CancelledError == [type |-> "CancelledError", text |-> ""]

KeyboardInterrupt == [type |-> "KeyboardInterrupt", text |-> ""]

SystemExit == [type |-> "SystemExit", text |-> ""]

NoException == [type |-> "", text |-> ""]

\* the classes that derive from BaseException and not from Exception; every
\* other class is an Exception
NotExceptions ==
    {"BaseException", "BaseExceptionGroup", "GeneratorExit",
     "KeyboardInterrupt", "SystemExit", "CancelledError"}

\* the except clauses with `except Exception` left out
except_clauses_timeout_only(e) ==
    IF e.type = "TimeoutExpired" THEN
        [state |-> "TimedOut",
         body |-> [kind |-> "json", status |-> "error",
                   message |-> "Processing timeout"]]
    ELSE [state |-> "Propagating", body |-> [kind |-> "raised", exc |-> e]]

\* lines 101-113: what the except clauses of process_audio make of e; an
\* exception that neither clause matches leaves the handler
except_clauses(e) ==
    IF e.type = "TimeoutExpired" THEN
        [state |-> "TimedOut",
         body |-> [kind |-> "json", status |-> "error",
                   message |-> "Processing timeout"]]
    ELSE IF e.type \notin NotExceptions THEN
        [state |-> "Failed",
         body |-> [kind |-> "json", status |-> "error", message |-> e.text]]
    ELSE [state |-> "Propagating", body |-> [kind |-> "raised", exc |-> e]]

\* The upload: what open(), await file.read() and f.write() raise.

OpenErrors(path) == {OSError(PermissionDeniedText(path))}

ReadErrors ==
    {OSError("[Errno 5] Input/output error"),
     ValueError("I/O operation on closed file.")}

\* what is raised at the await of file.read() and is no Exception: the
\* request's task is cancelled, or the upload object raises it
ReadInterrupts == {CancelledError, KeyboardInterrupt, SystemExit}

WriteErrors == {OSError("[Errno 28] No space left on device")}

\* Path.exists(): the answer for a path, or the OSError it re-raises
path_exists(path, files) ==
    {IF path \in files THEN "present" ELSE "absent", "raises"}

\* The engine: exit statuses, diagnostics, running times in seconds.

ReturnCodes == {0, 1}

\* the bytes captured from standard error: ASCII text, then possibly the
\* byte 0xff
StderrBytes ==
    {[ascii |-> "", tail_ff |-> FALSE],
     [ascii |-> "frame=1\rInvalid data found when processing input\r\n",
      tail_ff |-> FALSE],
     [ascii |-> "", tail_ff |-> TRUE]}

\* the bytes captured from standard output
StdoutBytes ==
    {[ascii |-> "", tail_ff |-> FALSE], [ascii |-> "", tail_ff |-> TRUE]}

NoCapture == [ascii |-> "", tail_ff |-> FALSE]

\* locale.getpreferredencoding(False) of the handler's process
Encodings == {"utf-8", "ascii", "latin-1"}

\* bytes.decode(codec): the text, or the UnicodeDecodeError
decode(b, codec) ==
    IF ~b.tail_ff THEN [ok |-> TRUE, text |-> b.ascii]
    ELSE IF codec = "utf-8" THEN
        [ok |-> FALSE,
         exc |-> UnicodeDecodeError(codec, Len(b.ascii), "invalid start byte")]
    ELSE IF codec = "ascii" THEN
        [ok |-> FALSE,
         exc |-> UnicodeDecodeError(codec, Len(b.ascii),
                                    "ordinal not in range(128)")]
    ELSE [ok |-> TRUE, text |-> b.ascii \o "ÿ"]

\* universal newlines: \r\n and \r are read as \n
RECURSIVE translate_newlines(_)
translate_newlines(s) ==
    IF s = "" THEN ""
    ELSE IF SubSeq(s, 1, 1) = "\r" THEN
        "\n" \o translate_newlines(
                    IF Len(s) >= 2 /\ SubSeq(s, 2, 2) = "\n"
                    THEN SubSeq(s, 3, Len(s)) ELSE SubSeq(s, 2, Len(s)))
    ELSE SubSeq(s, 1, 1) \o translate_newlines(SubSeq(s, 2, Len(s)))

\* text=True: the captured bytes decoded with the locale's encoding, line
\* endings translated
read_text(b, codec) ==
    IF decode(b, codec).ok
    THEN [ok |-> TRUE, text |-> translate_newlines(decode(b, codec).text)]
    ELSE decode(b, codec)

Durations == {1, TIMEOUT_S + 1}

\* a handler that starts the engine without waiting for the upload
can_start_engine_early(state) == state \in {"Received", "Saved"}

\* lines 53-68: subprocess.run is reached only once the upload is written
can_start_engine(state) == state = "Saved"

\* line 115: the finally clause runs whatever the try block did
finally_runs(state) ==
    state \in {"Succeeded", "Failed", "TimedOut", "Propagating"}

\* lines 118-119: the path the cleanup tests and unlinks
cleanup_target(j) == j.input_path

Range(s) == {s[i] : i \in 1..Len(s)}

---------------------------------------------------------------------------
(* process_audio, one action per step of the handler *)

\* the try block is left: by a return statement, by an exception that an
\* except clause turns into a return value, or by an exception that none
\* of them matches, which reports nothing
Conclude(r, state, body, kind, e) ==
    /\ pc' = [pc EXCEPT ![r] = state]
    /\ outcome' = [outcome EXCEPT ![r] = body]
    /\ fault' = [fault EXCEPT ![r] = kind]
    /\ exc' = [exc EXCEPT ![r] = e]
    /\ reports' = [reports EXCEPT ![r] =
                      IF body.kind = "raised" THEN @ ELSE @ + 1]
    /\ hist' = [hist EXCEPT ![r] = Append(@, state)]

\* a return statement inside the try block
Respond(r, state, body, kind) == Conclude(r, state, body, kind, exc[r])

\* an exception raised inside the try block
Raise(r, e, kind) ==
    Conclude(r, except_clauses(e).state, except_clauses(e).body, kind, e)

\* lines 33-50: a request arrives and gets its identifier and paths;
\* requests are numbered in the order in which they arrive
Receive(r) ==
    /\ pc[r] = "Idle"
    /\ \A q \in Reqs : q < r => pc[q] # "Idle"
    /\ \E preset \in Presets, filename \in FileNames, id \in uuid4(used_ids) :
          /\ job' = [job EXCEPT ![r] = NewJob(id, preset, filename)]
          /\ used_ids' = used_ids \cup {id}
    /\ pc' = [pc EXCEPT ![r] = "Received"]
    /\ hist' = [hist EXCEPT ![r] = Append(@, "Received")]
    /\ UNCHANGED <<sh_forks, encoding, fs, cmd, child, captured, result, outcome, fault, exc, f_open,
                   out_seen, warned, runs, reports, steps, probe>>

\* line 55: open(input_path, "wb") creates the empty file; the handler then
\* waits at `await file.read()` while other requests run
OpenUpload(r) ==
    /\ pc[r] = "Received" /\ ~f_open[r]
    /\ fs' = fs \cup {job[r].input_path}
    /\ f_open' = [f_open EXCEPT ![r] = TRUE]
    /\ UNCHANGED <<sh_forks, encoding, used_ids, pc, job, cmd, child, captured, result, outcome,
                   fault, exc, out_seen, warned, runs, reports, steps, hist,
                   probe>>

\* line 55 raising: no file is created
OpenUploadFails(r) ==
    /\ pc[r] = "Received" /\ ~f_open[r]
    /\ \E e \in OpenErrors(job[r].input_path) : Raise(r, e, "upload")
    /\ steps' = [steps EXCEPT ![r] = Append(@, "save")]
    /\ UNCHANGED <<sh_forks, encoding, fs, used_ids, job, cmd, child, captured, result, f_open,
                   out_seen, warned, runs, probe>>

\* lines 56-59: the content is read and written, and f is closed
SaveUpload(r) ==
    /\ pc[r] = "Received" /\ f_open[r]
    /\ f_open' = [f_open EXCEPT ![r] = FALSE]
    /\ pc' = [pc EXCEPT ![r] = "Saved"]
    /\ hist' = [hist EXCEPT ![r] = Append(@, "Saved")]
    /\ steps' = [steps EXCEPT ![r] = Append(@, "save")]
    /\ UNCHANGED <<sh_forks, encoding, fs, used_ids, job, cmd, child, captured, result, outcome,
                   fault, exc, out_seen, warned, runs, reports, probe>>

\* lines 56-57 raising: file.read() or f.write() fails; f is closed and the
\* file open() created stays
SaveUploadFails(r) ==
    /\ pc[r] = "Received" /\ f_open[r]
    /\ f_open' = [f_open EXCEPT ![r] = FALSE]
    /\ \E e \in ReadErrors \cup WriteErrors : Raise(r, e, "upload")
    /\ steps' = [steps EXCEPT ![r] = Append(@, "save")]
    /\ UNCHANGED <<sh_forks, encoding, fs, used_ids, job, cmd, child, captured, result, out_seen,
                   warned, runs, probe>>

\* line 56: an exception that is no Exception is raised at the await of
\* file.read()
InterruptUpload(r) ==
    /\ pc[r] = "Received" /\ f_open[r]
    /\ f_open' = [f_open EXCEPT ![r] = FALSE]
    /\ \E e \in ReadInterrupts : Raise(r, e, "interrupted")
    /\ steps' = [steps EXCEPT ![r] = Append(@, "save")]
    /\ UNCHANGED <<sh_forks, encoding, fs, used_ids, job, cmd, child, captured,
                   result, out_seen, warned, runs, probe>>

\* lines 62-74: build the command and hand it to subprocess.run
StartEngine(r) ==
    /\ can_start_engine(pc[r])
    /\ cmd' = [cmd EXCEPT ![r] = get_ffmpeg_command(job[r].preset,
                                     job[r].input_path, job[r].output_path)]
    /\ child' = [child EXCEPT ![r] = "running"]
    /\ runs' = [runs EXCEPT ![r] = @ + 1]
    /\ pc' = [pc EXCEPT ![r] = "Processing"]
    /\ hist' = [hist EXCEPT ![r] = Append(@, "Processing")]
    /\ steps' = [steps EXCEPT ![r] = Append(@, "engine")]
    /\ UNCHANGED <<sh_forks, encoding, fs, used_ids, job, captured, result, outcome, fault, exc,
                   f_open, out_seen, warned, reports, probe>>

\* line 68 raising OSError: the shell could not be started
SpawnFails(r) ==
    /\ pc[r] = "Processing" /\ child[r] = "running"
    /\ child' = [child EXCEPT ![r] = "none"]
    /\ Raise(r, OSError(SpawnErrorText), "unexpected")
    /\ UNCHANGED <<sh_forks, encoding, fs, used_ids, job, cmd, captured, result, f_open, out_seen,
                   warned, runs, steps, probe>>

\* the engine exits within the timeout: subprocess.run reads what it
\* captured as text, standard output first, and returns its result, or
\* raises when the bytes do not decode; result.stdout is read nowhere in
\* process_audio, and of the result its returncode and stderr are kept
EngineExit(r) ==
    /\ pc[r] = "Processing" /\ child[r] = "running"
    /\ child' = [child EXCEPT ![r] = "exited"]
    /\ \E d \in Durations, rc \in ReturnCodes, wrote \in BOOLEAN,
          out \in StdoutBytes, err \in StderrBytes :
          /\ d < TIMEOUT_S
          /\ fs' = IF wrote THEN fs \cup {job[r].output_path} ELSE fs
          /\ IF ~read_text(out, encoding).ok THEN
                /\ Raise(r, read_text(out, encoding).exc, "unexpected")
                /\ UNCHANGED <<captured, result>>
             ELSE IF ~read_text(err, encoding).ok THEN
                /\ Raise(r, read_text(err, encoding).exc, "unexpected")
                /\ UNCHANGED <<captured, result>>
             ELSE
                /\ captured' = [captured EXCEPT ![r] = err]
                /\ result' = [result EXCEPT ![r] =
                                 [set |-> TRUE, returncode |-> rc,
                                  stderr |-> read_text(err, encoding).text]]
                /\ UNCHANGED <<pc, outcome, fault, exc, reports, hist>>
    /\ UNCHANGED <<sh_forks, encoding, used_ids, job, cmd, f_open, out_seen,
                   warned, runs, steps, probe>>

\* lines 76-99: the checks on the result, and the response
CheckResult(r) ==
    /\ pc[r] = "Processing" /\ child[r] = "exited"
    /\ steps' = [steps EXCEPT ![r] = Append(@, "check")]
    /\ IF result[r].returncode # 0 THEN
          /\ Respond(r, "Failed",
                     [kind |-> "json", status |-> "error",
                      message |-> "Processing failed",
                      error |-> result[r].stderr], "engine")
          /\ UNCHANGED out_seen
       ELSE
          \E seen \in path_exists(job[r].output_path, fs) :
             /\ out_seen' = [out_seen EXCEPT ![r] = seen]
             /\ IF seen = "raises" THEN
                   Raise(r, OSError(PermissionDeniedText(job[r].output_path)),
                         "unexpected")
                ELSE IF seen = "absent" THEN
                   Respond(r, "Failed",
                           [kind |-> "json", status |-> "error",
                            message |-> "Output file not created"], "missing")
                ELSE IF job[r].filename = <<>> THEN
                   \* None.rsplit
                   Raise(r, AttributeError, "unexpected")
                ELSE
                   Respond(r, "Succeeded",
                           FileResponse(job[r].output_path, "audio/mp4",
                               job[r].preset \o "_"
                               \o rsplit_dot_head(job[r].filename[1])
                               \o ".m4a"),
                           "none")
    /\ UNCHANGED <<sh_forks, encoding, fs, used_ids, job, cmd, child, captured, result, f_open,
                   warned, runs, probe>>

\* lines 68-74 and 101-106: 300 seconds pass; subprocess.run kills the
\* process it started, the shell, waits for it and raises TimeoutExpired.
\* Where the shell runs the engine as its own child, the engine lives on.
EngineTimeout(r) ==
    /\ pc[r] = "Processing" /\ child[r] = "running"
    /\ \E d \in Durations, wrote \in BOOLEAN :
          /\ d > TIMEOUT_S
          /\ fs' = IF wrote THEN fs \cup {job[r].output_path} ELSE fs
    /\ child' = [child EXCEPT ![r] = IF sh_forks THEN "orphan" ELSE "killed"]
    /\ Raise(r, TimeoutExpired(cmd[r]), "timeout")
    /\ UNCHANGED <<sh_forks, encoding, used_ids, job, cmd, captured, result, f_open, out_seen,
                   warned, runs, steps, probe>>

\* an engine left running ends on its own, with or without an output file
OrphanExit(r) ==
    /\ child[r] = "orphan"
    /\ child' = [child EXCEPT ![r] = "gone"]
    /\ \E wrote \in BOOLEAN :
          fs' = IF wrote THEN fs \cup {job[r].output_path} ELSE fs
    /\ UNCHANGED <<sh_forks, encoding, used_ids, pc, job, cmd, captured, result, outcome, fault, exc,
                   f_open, out_seen, warned, runs, reports, steps, hist, probe>>

\* lines 115-121: the finally clause, then the handler returns or the
\* exception in flight leaves it
Cleanup(r) ==
    /\ pc[r] \in {"Succeeded", "Failed", "TimedOut", "Propagating"}
    /\ pc' = [pc EXCEPT ![r] = "CleanedUp"]
    /\ hist' = [hist EXCEPT ![r] = Append(@, "CleanedUp")]
    /\ IF finally_runs(pc[r]) THEN
          /\ steps' = [steps EXCEPT ![r] = Append(@, "cleanup")]
          /\ \E seen \in path_exists(cleanup_target(job[r]), fs) :
                IF seen = "raises" THEN
                   \* exists() raising is caught and logged (lines 120-121)
                   /\ warned' = [warned EXCEPT ![r] = TRUE]
                   /\ UNCHANGED fs
                ELSE IF seen = "present" THEN
                   \E unlinked \in BOOLEAN :
                      \* unlink() raising is caught and logged
                      /\ fs' = IF unlinked THEN fs \ {cleanup_target(job[r])}
                               ELSE fs
                      /\ warned' = [warned EXCEPT ![r] = ~unlinked]
                ELSE UNCHANGED <<fs, warned>>
       ELSE UNCHANGED <<steps, fs, warned>>
    /\ UNCHANGED <<sh_forks, encoding, used_ids, job, cmd, child, captured, result, outcome, fault, exc,
                   f_open, out_seen, runs, reports, probe>>

\* the framework sends the FileResponse the handler returned, once the
\* handler has returned it: the file is streamed to the caller, or the
\* sending fails
Stream(r) ==
    /\ pc[r] = "CleanedUp"
    /\ outcome[r].kind = "file"
    /\ Range(steps[r]) \cap {"stream", "stream failed"} = {}
    /\ \E sent \in BOOLEAN :
          steps' = [steps EXCEPT ![r] =
                       Append(@, IF sent THEN "stream" ELSE "stream failed")]
    /\ UNCHANGED <<sh_forks, encoding, fs, used_ids, pc, job, cmd, child,
                   captured, result, outcome, fault, exc, f_open, out_seen,
                   warned, runs, reports, hist, probe>>

NoProbe ==
    [preset |-> "", input_path |-> "", output_path |-> "", cmd |-> "",
     built |-> FALSE]

InitRequests ==
    /\ fs = {}
    /\ used_ids = {}
    /\ pc = [r \in Reqs |-> "Idle"]
    /\ job = [r \in Reqs |-> NoJob]
    /\ cmd = [r \in Reqs |-> ""]
    /\ child = [r \in Reqs |-> "none"]
    /\ captured = [r \in Reqs |-> NoCapture]
    /\ result = [r \in Reqs |-> NoResult]
    /\ outcome = [r \in Reqs |-> NoOutcome]
    /\ fault = [r \in Reqs |-> "none"]
    /\ exc = [r \in Reqs |-> NoException]
    /\ f_open = [r \in Reqs |-> FALSE]
    /\ out_seen = [r \in Reqs |-> "unchecked"]
    /\ warned = [r \in Reqs |-> FALSE]
    /\ runs = [r \in Reqs |-> 0]
    /\ reports = [r \in Reqs |-> 0]
    /\ steps = [r \in Reqs |-> <<>>]
    /\ hist = [r \in Reqs |-> <<>>]

Init ==
    /\ sh_forks \in BOOLEAN
    /\ encoding \in Encodings
    /\ InitRequests
    /\ probe = NoProbe

\* the steps of the handler itself, for request r
HandlerStep(r) ==
    \/ OpenUpload(r)
    \/ OpenUploadFails(r)
    \/ SaveUpload(r)
    \/ SaveUploadFails(r)
    \/ StartEngine(r)
    \/ SpawnFails(r)
    \/ EngineExit(r)
    \/ CheckResult(r)
    \/ EngineTimeout(r)
    \/ Cleanup(r)

Next ==
    \E r \in Reqs :
        \/ Receive(r)
        \/ HandlerStep(r)
        \/ InterruptUpload(r)
        \/ OrphanExit(r)
        \/ Stream(r)

Spec == Init /\ [][Next]_vars

\* the handler runs to its end once called: each step is taken, and
\* subprocess.run returns at the engine's exit or at the timeout
FairSpec == Spec /\ \A r \in Reqs : WF_vars(HandlerStep(r))

---------------------------------------------------------------------------
(* get_ffmpeg_command on its own, over preset strings and paths *)

ProbePresets ==
    KnownPresets \cup {"LoFi", "", "not_a_real_preset", "Reverb", "lofi "}

ProbeInputs == {"/tmp/audio/id1_input.mp3", "in.wav", "my song.mp3"}

ProbeOutputs == {"/tmp/audio/id1_output.m4a", "out.m4a"}

InitBuild ==
    /\ sh_forks = FALSE
    /\ encoding = "utf-8"
    /\ InitRequests
    /\ probe \in [preset : ProbePresets, input_path : ProbeInputs,
                  output_path : ProbeOutputs, cmd : {""}, built : {FALSE}]

Build ==
    /\ ~probe.built
    /\ probe' = [probe EXCEPT
                    !.cmd = get_ffmpeg_command(probe.preset, probe.input_path,
                                               probe.output_path),
                    !.built = TRUE]
    /\ UNCHANGED <<sh_forks, encoding, fs, used_ids, reqvars>>

NextBuild == Build

SpecBuild == InitBuild /\ [][NextBuild]_vars

---------------------------------------------------------------------------
(* Reading a command string back, for the properties *)

Min(S) == CHOOSE x \in S : \A y \in S : x <= y

Contains(s, sub) == Occurrences(s, sub) # {}

StartsWith(s, pre) == Len(pre) <= Len(s) /\ SubSeq(s, 1, Len(pre)) = pre

EndsWith(s, suf) ==
    Len(suf) <= Len(s) /\ SubSeq(s, Len(s) - Len(suf) + 1, Len(s)) = suf

\* s.split(sep) for a one-character sep
RECURSIVE Split(_, _)
Split(s, sep) ==
    IF Occurrences(s, sep) = {} THEN <<s>>
    ELSE LET i == Min(Occurrences(s, sep))
         IN  <<SubSeq(s, 1, i - 1)>> \o Split(SubSeq(s, i + 1, Len(s)), sep)

FilterFlag == "-filter_complex \""

\* the text between -filter_complex " and the next ", "" when there is none
FilterGraph(c) ==
    IF ~Contains(c, FilterFlag) THEN ""
    ELSE LET from == Min(Occurrences(c, FilterFlag)) + Len(FilterFlag)
             rest == SubSeq(c, from, Len(c))
         IN  SubSeq(rest, 1, Min(Occurrences(rest, "\"")) - 1)

\* the filters of the chain, in order, each "name=arguments"
FilterChain(c) == IF FilterGraph(c) = "" THEN <<>> ELSE Split(FilterGraph(c), ",")

FilterName(f) == Split(f, "=")[1]

---------------------------------------------------------------------------
(* Properties *)

Decided(r) ==
    pc[r] \in {"Succeeded", "Failed", "TimedOut", "Propagating", "CleanedUp"}

Returned(r) == pc[r] = "CleanedUp"

ErrorBody(r) == outcome[r].kind = "json" /\ outcome[r].status = "error"

ZeroExit(r) == result[r].set /\ result[r].returncode = 0

\* C1: once process_audio has returned, whatever the outcome, the request's
\* input file does not exist on storage.
C1_InputGoneAfterReturn ==
    \A r \in Reqs : Returned(r) => job[r].input_path \notin fs

\* C2: a request whose engine run exceeded the timeout returns the
\* "Processing timeout" error body and, once it has returned, no process
\* started for it (the shell or the engine) is still running.
C2_TimeoutLeavesNoChild ==
    \A r \in Reqs :
        (Returned(r) /\ fault[r] = "timeout") =>
            /\ outcome[r] = [kind |-> "json", status |-> "error",
                             message |-> "Processing timeout"]
            /\ child[r] \notin {"running", "orphan"}

\* C3: process_audio returns the file response if and only if the engine
\* exited with status zero and the output path exists; zero exit with the
\* output absent is reported as the "Output file not created" error body.
C3_SuccessIffZeroExitAndOutput ==
    \A r \in Reqs :
        Decided(r) =>
            /\ outcome[r].kind = "file"
                  <=> (ZeroExit(r) /\ out_seen[r] = "present")
            /\ (ZeroExit(r) /\ out_seen[r] = "absent") =>
                  outcome[r] = [kind |-> "json", status |-> "error",
                                message |-> "Output file not created"]

\* the try block met a fault of one of the kinds of spec section 7
Faulted(r) ==
    fault[r] \in {"upload", "engine", "missing", "timeout", "unexpected"}

\* C4 as stated: every fault met during a request (upload error, engine
\* non-zero exit, missing output, timeout, any other exception raised in the
\* handler, a failing cleanup) ends as a JSON body with status "error"; no
\* exception ever leaves the handler.
C4_FaultsBecomeErrorBodies ==
    \A r \in Reqs :
        /\ outcome[r].kind # "raised"
        /\ fault[r] # "none" => ErrorBody(r)
        /\ exc[r] # NoException => ErrorBody(r)
        /\ warned[r] => ErrorBody(r)

\* C4, amended: every fault met in the try block that is an Exception
\* (upload error, engine non-zero exit, missing output, timeout, any other
\* Exception) ends as a JSON body with status "error"; an exception that is
\* no Exception (CancelledError, KeyboardInterrupt, SystemExit) is caught by
\* no clause and leaves the handler once the cleanup has run; an Exception
\* raised by the cleanup is caught and logged and changes nothing of the
\* outcome already decided, which may be the file response.
C4_ExceptionsBecomeErrorBodies ==
    /\ [](\A r \in Reqs :
             /\ Faulted(r) => ErrorBody(r)
             /\ exc[r] # NoException =>
                   IF exc[r].type \in NotExceptions
                   THEN outcome[r] = [kind |-> "raised", exc |-> exc[r]]
                   ELSE ErrorBody(r)
             /\ outcome[r].kind = "raised" =>
                   /\ exc[r].type \in NotExceptions
                   /\ Returned(r) => "cleanup" \in Range(steps[r])
             /\ Decided(r) => outcome[r].kind \in {"json", "file", "raised"}
             /\ warned[r] => Returned(r))
    /\ [][\A r \in Reqs :
             (pc[r] # "CleanedUp" /\ pc'[r] = "CleanedUp") =>
                 /\ outcome'[r] = outcome[r]
                 /\ Decided(r)]_vars

\* one request returned the file response although its cleanup raised;
\* another raised ValueError while the upload was read and returned an error
\* body, or was interrupted there and returned nothing
C4_Witness ==
    \E r1, r2 \in Reqs :
        /\ Returned(r1) /\ warned[r1] /\ outcome[r1].kind = "file"
        /\ Returned(r2)
        /\ \/ exc[r2].type = "ValueError" /\ ErrorBody(r2)
           \/ exc[r2].type = "KeyboardInterrupt" /\ outcome[r2].kind = "raised"

\* C5: text that is not fixed appears only for an engine non-zero exit (the
\* captured standard error, verbatim, in the error field); for every other
\* kind of failure the message is one fixed string whatever the fault's
\* details.
C5_OnlyEngineTextVaries ==
    /\ \A r \in Reqs :
          (Decided(r) /\ fault[r] = "engine") =>
              outcome[r].error = decode(captured[r], encoding).text
    /\ \A r1, r2 \in Reqs :
          (/\ Decided(r1) /\ Decided(r2)
           /\ fault[r1] = fault[r2]
           /\ fault[r1] \in {"upload", "missing", "timeout", "unexpected"}) =>
              outcome[r1].message = outcome[r2].message

\* the stage of the spec's table that an ffmpeg filter carries out
StageOf(name) ==
    CASE name = "lowpass" -> "lowpass"
      [] name = "highpass" -> "highpass"
      [] name = "equalizer" -> "eq-boost"
      [] name = "vibrato" -> "vibrato"
      [] name = "atempo" -> "tempo"
      [] name \in {"asetrate", "aresample"} -> "resample-pitch"
      [] name = "reverb" -> "reverb"
      [] name = "apulsator" -> "pulsation"
      [] name = "stereotools" -> "stereo-adjust"
      [] name = "extrastereo" -> "stereo-widening"
      [] OTHER -> "unknown"

\* the stages of a filter chain in order; asetrate,aresample is one stage
RECURSIVE Stages(_)
Stages(chain) ==
    IF chain = <<>> THEN <<>>
    ELSE LET first == StageOf(FilterName(Head(chain)))
             rest == Stages(Tail(chain))
         IN  IF rest # <<>> /\ Head(rest) = first THEN rest
             ELSE <<first>> \o rest

\* the rows of the table of spec section 4.2: stage order
TableRow(preset) ==
    CASE preset \in {"lofi", "tiktok_lofi", "chill_lofi"} ->
            <<"lowpass", "highpass", "eq-boost", "vibrato", "resample-pitch">>
      [] preset = "reverb" ->
            <<"tempo", "resample-pitch", "reverb", "eq-boost">>
      [] preset = "nightcore" ->
            <<"tempo", "resample-pitch", "highpass", "eq-boost">>
      [] preset = "8d_audio" ->
            <<"pulsation", "stereo-adjust", "stereo-widening", "reverb">>
      [] preset = "vaporwave" ->
            <<"tempo", "resample-pitch", "reverb", "eq-boost">>
      [] OTHER -> <<>>

\* the rows of the table of spec section 4.2: the parameters it gives
TableParams(preset) ==
    CASE preset \in {"lofi", "tiktok_lofi", "chill_lofi"} ->
            {"equalizer=f=60:", "asetrate=44100*0.97,"}
      [] preset = "reverb" ->
            {"atempo=0.85,", "asetrate=44100*0.95,", "roomsize=0.8:",
             "wet=0.45:", "equalizer=f=60:"}
      [] preset = "nightcore" ->
            {"atempo=1.25,", "asetrate=44100*1.1,", "equalizer=f=8000:"}
      [] preset = "8d_audio" -> {"apulsator=hz=0.35:", "extrastereo=m=2.0,"}
      [] preset = "vaporwave" ->
            {"atempo=0.90,", "asetrate=44100*0.93,", "roomsize=0.6:",
             "wet=0.35,", "equalizer=f=60:"}
      [] OTHER -> {}

\* C6: for every input and output path, get_ffmpeg_command gives for each
\* known preset id a command with a non-empty filter chain whose stages are
\* in the order (and with the parameters) of the id's table row, the three
\* lofi aliases giving the same command; for any other string, compared
\* exactly, the default re-encode command without a filter chain; and every
\* command reads the input path and encodes AAC at 320k to the output path.
C6_CommandMatchesTable ==
    probe.built =>
        LET c == probe.cmd
            quoted_in == "\"" \o probe.input_path \o "\""
            quoted_out == "\"" \o probe.output_path \o "\""
        IN  /\ StartsWith(c, "ffmpeg -i " \o quoted_in \o " ")
            /\ EndsWith(c, " -c:a aac -b:a 320k " \o quoted_out)
            /\ probe.preset \in KnownPresets =>
                  /\ FilterChain(c) # <<>>
                  /\ Stages(FilterChain(c)) = TableRow(probe.preset)
                  /\ \A p \in TableParams(probe.preset) :
                        Contains(FilterGraph(c) \o ",", p)
            /\ probe.preset \in {"tiktok_lofi", "chill_lofi"} =>
                  c = get_ffmpeg_command("lofi", probe.input_path,
                                         probe.output_path)
            /\ probe.preset \notin KnownPresets =>
                  /\ ~Contains(c, "-filter_complex")
                  /\ c = "ffmpeg -i " \o quoted_in \o " -c:a aac -b:a 320k "
                         \o quoted_out

\* the third lofi alias was given and the lofi chain of six filters built
C6_Witness ==
    /\ probe.built
    /\ probe.preset = "chill_lofi"
    /\ Len(FilterChain(probe.cmd)) = 6

Active(r) == pc[r] # "Idle"

PathsOf(r) == {job[r].input_path, job[r].output_path}

\* the upload of r was written and its cleanup has not run yet
HoldsInput(r) ==
    /\ pc[r] \in {"Saved", "Processing", "Succeeded", "Failed", "TimedOut"}
    /\ "Saved" \in Range(hist[r])

\* what the two paths of a request start with
PathPrefix(r) == TEMP_DIR \o "/" \o job[r].file_id \o "_"

StepAt(r, name) ==
    IF name \in Range(steps[r])
    THEN CHOOSE i \in 1..Len(steps[r]) : steps[r][i] = name
    ELSE 0

\* C8: the deletion of the input file is attempted on every path and is the
\* very last action of the request: a request that returns the file has
\* streamed it before the cleanup, and no save, engine run, output check or
\* streaming takes place after the cleanup.
C8_CleanupIsLastAction ==
    \A r \in Reqs :
        Returned(r) =>
            /\ StepAt(r, "cleanup") = Len(steps[r])
            /\ outcome[r].kind = "file" =>
                  /\ StepAt(r, "stream") # 0
                  /\ StepAt(r, "stream") < StepAt(r, "cleanup")

\* C9: a request whose preset is no known preset id is not rejected for it:
\* the engine is run with the default re-encode command, and if the engine
\* exits zero and the output exists the request returns the file, not an
\* error body.
C9_UnknownPresetReencodes ==
    \A r \in Reqs :
        (Active(r) /\ job[r].preset \notin KnownPresets) =>
            /\ cmd[r] # "" =>
                  cmd[r] = "ffmpeg -i \"" \o job[r].input_path
                           \o "\" -c:a aac -b:a 320k \""
                           \o job[r].output_path \o "\""
            /\ (Decided(r) /\ ZeroExit(r) /\ out_seen[r] = "present") =>
                  outcome[r].kind = "file"

\* the request state machine of spec section 4.3
ChainEdges ==
    {<<"Received", "Saved">>, <<"Saved", "Processing">>,
     <<"Processing", "Succeeded">>, <<"Processing", "Failed">>,
     <<"Processing", "TimedOut">>,
     <<"Succeeded", "CleanedUp">>, <<"Failed", "CleanedUp">>,
     <<"TimedOut", "CleanedUp">>}

MovesAlong(edges) ==
    \A r \in Reqs :
        /\ hist[r] # <<>> => hist[r][1] = "Received"
        /\ \A i \in 1..(Len(hist[r]) - 1) :
              <<hist[r][i], hist[r][i + 1]>> \in edges

\* the engine is run at most once and only after the save; one outcome,
\* none for a cancelled request
EngineAndOutcomeOnce ==
    \A r \in Reqs :
        /\ runs[r] <= 1
        /\ runs[r] = 1 => "save" \in Range(steps[r])
        /\ "Saved" \notin Range(hist[r]) => child[r] = "none"
        /\ reports[r] =
              IF Decided(r) /\ "Propagating" \notin Range(hist[r]) THEN 1 ELSE 0
        /\ reports[r] = 1 <=> outcome[r].kind \in {"json", "file"}

UploadEdges ==
    {<<"Received", "Failed">>, <<"Received", "Propagating">>,
     <<"Propagating", "CleanedUp">>}

=============================================================================
